---- MODULE Spec2Model ----
(***************************************************************************)
(* State-machine model of ratatodo (src/src/main.rs): the App struct, the  *)
(* run loop (draw, then block for one key event), the per-mode key         *)
(* dispatch of handle_key_events and the task-list operations it calls.    *)
(*                                                                         *)
(* Strings are sequences of one-character strings.  Option<usize> is a     *)
(* sequence of length 0 (None) or 1 (Some(i)); indices are 0-based as in   *)
(* the source, so items[i] of the source is items[i + 1] here.             *)
(*                                                                         *)
(* ratatui's ListState and List are a dependency, not part of main.rs.     *)
(* They are modelled by their documented behaviour at the call sites:      *)
(*   ListState::select_next      selected.map_or(0, |i| i.saturating_add(1)) *)
(*   ListState::select_previous  selected.map_or(usize::MAX,               *)
(*                                               |i| i.saturating_sub(1))  *)
(*   StatefulWidget::render for List: an empty list clears the selection,  *)
(*     a selection past the end is set to the last index.  The list area   *)
(*     is taken to be non-empty: the terminal is large enough to show the  *)
(*     list (on an empty area render returns before it reads the state).   *)
(***************************************************************************)
EXTENDS Integers, Sequences, FiniteSets, TLC

VARIABLES
    exit,                   \* App.exit
    items,                  \* App.list.items : Vec<Task>
    selected,               \* App.list.state.selected() : Option<usize>
    mode,                   \* App.mode
    currently_editing,      \* App.currently_editing
    editing_existing_item,  \* App.editing_existing_item.index : Option<usize>
    title_field,            \* App.title_field
    info_field,             \* App.info_field
    pc,                     \* position of App::run
    key,                    \* the KeyCode of the key event handled last, until
                            \* the next frame is drawn
    selected_before,        \* observer: the selection when that key event was read
    session,                \* observer: how the current edit session was entered
                            \* ("new", "edit"), "none" outside an edit session
    store_before            \* observer: <<items, selected>> as they were when the
                            \* edit session was entered, kept until the frame
                            \* after the session's end is drawn; <<>> otherwise

appvars == <<exit, items, selected, mode, currently_editing,
             editing_existing_item, title_field, info_field>>
vars == <<exit, items, selected, mode, currently_editing,
          editing_existing_item, title_field, info_field, pc, key,
          selected_before, session, store_before>>

---------------------------------------------------------------------------
(* Bounds of the model *)

\* most tasks the list holds: a commit that would push one more is not offered
MaxTasks == 2

\* usize::MAX, the value select_previous stores when nothing is selected;
\* the largest integer of the checker stands for it
UsizeMax == 2147483647

---------------------------------------------------------------------------
(* Option<usize> *)

None == <<>>
Some(i) == <<i>>
IsSome(o) == Len(o) = 1
Unwrap(o) == o[1]

---------------------------------------------------------------------------
(* Key codes.  A Char key is named by its character, the others by the     *)
(* name of the KeyCode variant.  "x" is a character no View arm maps and   *)
(* "Home" a key no arm of any mode maps.                                   *)

CharKeys == {"q", "n", "i", "a", "o", "j", "k", "h", "e", "d", "l", "t", "x"}
NamedKeys == {"Down", "Up", "Left", "Right", "Tab", "Delete", "Backspace",
              "Esc", "Enter", "Home"}
KeyCodes == CharKeys \cup NamedKeys

\* the key codes the input source delivers
Inputs == {"q", "n", "e", "h", "x", "Down", "Up", "Tab", "Backspace", "Esc",
           "Enter", "Home"}

\* the characters typed while in Edit mode, and the texts they spell: a
\* character key that would take a buffer out of Texts is not delivered
TypedChars == {"q"}
Texts == {<<>>, <<"q">>}

KeysQuit == {"q"}
KeysNewTask == {"n", "i", "a", "o"}
KeysSelectNext == {"j", "Down"}
KeysSelectPrevious == {"k", "Up"}
KeysHelp == {"h"}
KeysEditTask == {"e"}
KeysDeleteTask == {"Delete", "Backspace", "d"}
KeysToggleStatus == {"l", "Right", "Tab", "Left", "t"}
KeysViewOther == KeyCodes \ (KeysQuit \cup KeysNewTask \cup KeysSelectNext
                    \cup KeysSelectPrevious \cup KeysHelp \cup KeysEditTask
                    \cup KeysDeleteTask \cup KeysToggleStatus)

KeysEditToggleField == {"Tab", "Up", "Down"}
KeysEditOther == NamedKeys \ ({"Esc", "Backspace", "Enter"} \cup KeysEditToggleField)

KeysHelpOther == KeyCodes \ {"Esc"}

---------------------------------------------------------------------------
(* Tasks *)

Task(status, title, info) == [title |-> title, info |-> info, status |-> status]

\* a removal that is off by one: it drops the element before index i
RemoveAt_OffByOne(s, i) ==
    [j \in 1..(Len(s) - 1) |-> IF j < i THEN s[j] ELSE s[j + 1]]

\* Vec::remove(i), i in range
RemoveAt(s, i) == [j \in 1..(Len(s) - 1) |-> IF j <= i THEN s[j] ELSE s[j + 1]]

\* an emptiness test that never finds a string empty
IsEmpty_Never(s) == FALSE

\* String::is_empty
IsEmpty(s) == s = <<>>

\* String::pop
Pop(s) == IF s = <<>> THEN s ELSE SubSeq(s, 1, Len(s) - 1)

\* a status match that sends Completed back to Active
NextStatus_TwoState(s) ==
    CASE s = "Upcoming" -> "Active"
      [] s = "Active" -> "Completed"
      [] s = "Completed" -> "Active"

\* the status match of toggle_status
NextStatus(s) ==
    CASE s = "Upcoming" -> "Active"
      [] s = "Active" -> "Completed"
      [] s = "Completed" -> "Upcoming"

\* an update that replaces the whole task by a fresh one
UpdateTask_ResetsStatus(s, i, title, info) ==
    [s EXCEPT ![i + 1] = Task("Upcoming", title, info)]

\* the two assignments of new_task to items[i]
UpdateTask(s, i, title, info) ==
    [s EXCEPT ![i + 1].title = title, ![i + 1].info = info]

\* the push of new_task
PushTask(s, title, info) == Append(s, Task("Upcoming", title, info))

\* a field switch that only ever goes to the info field
ToggleField_ToInfo(f) == "Info"

ToggleField(f) == IF f = "Title" THEN "Info" ELSE "Title"

---------------------------------------------------------------------------
(* ListState *)

SelectNext(sel) ==
    IF IsSome(sel)
    THEN Some(IF Unwrap(sel) = UsizeMax THEN UsizeMax ELSE Unwrap(sel) + 1)
    ELSE Some(0)

\* a select_previous that starts from the first index when nothing is selected
SelectPrevious_FromFirst(sel) ==
    IF IsSome(sel)
    THEN Some(IF Unwrap(sel) = 0 THEN 0 ELSE Unwrap(sel) - 1)
    ELSE Some(0)

SelectPrevious(sel) ==
    IF IsSome(sel)
    THEN Some(IF Unwrap(sel) = 0 THEN 0 ELSE Unwrap(sel) - 1)
    ELSE Some(UsizeMax)

\* a render that clears the selection of an empty list but does not clamp
ListRender_NoClamp(sel, n) == IF n = 0 THEN None ELSE sel

\* what rendering the List does to the ListState for a list of n items
ListRender(sel, n) ==
    IF n = 0 THEN None
    ELSE IF IsSome(sel) /\ Unwrap(sel) >= n THEN Some(n - 1)
    ELSE sel

InRange(sel, n) == IsSome(sel) /\ Unwrap(sel) < n

---------------------------------------------------------------------------
Init ==
    /\ exit = FALSE
    /\ items = <<>>
    /\ selected = None
    /\ mode = "View"
    /\ title_field = <<>>
    /\ info_field = <<>>
    /\ currently_editing = "Title"
    /\ editing_existing_item = None
    /\ pc = "start"
    /\ key = "none"
    /\ selected_before = None
    /\ session = "none"
    /\ store_before = <<>>

\* a run loop that does not test exit
Handled_IgnoresExit(k, s) ==
    /\ key' = k
    /\ pc' = "draw"
    /\ selected_before' = selected
    /\ session' = s
    /\ store_before' = IF session = "none" /\ s # "none"
                       THEN <<items, selected>> ELSE store_before

\* handle_key_events returns to the loop of run, which tests exit
Handled(k, s) ==
    /\ key' = k
    /\ pc' = IF exit' THEN "done" ELSE "draw"
    /\ selected_before' = selected
    /\ session' = s
    /\ store_before' = IF session = "none" /\ s # "none"
                       THEN <<items, selected>> ELSE store_before

\* an index out of bounds: the thread panics and the process ends
Panic(k) ==
    /\ key' = k
    /\ pc' = "panicked"
    /\ selected_before' = selected
    /\ UNCHANGED <<appvars, session, store_before>>

(* terminal.draw: Widget::render for &mut App.  View mode renders the list *)
(* (which normalises the ListState) and then the selected item's panel,    *)
(* which indexes items with the selection.                                 *)
Draw ==
    /\ pc \in {"start", "draw"}
    /\ IF mode = "View"
       THEN LET sel == ListRender(selected, Len(items)) IN
            /\ selected' = sel
            /\ pc' = IF IsSome(sel) /\ ~InRange(sel, Len(items)) THEN "panicked"
                     ELSE IF pc = "start" THEN "draw" ELSE "read"
       ELSE /\ selected' = selected
            /\ pc' = IF pc = "start" THEN "draw" ELSE "read"
    /\ key' = "none"
    /\ selected_before' = None
    /\ store_before' = IF session = "none" THEN <<>> ELSE store_before
    /\ UNCHANGED <<exit, items, mode, currently_editing, editing_existing_item,
                   title_field, info_field, session>>

---------------------------------------------------------------------------
(* Mode::View *)

ViewQuit(k) ==
    /\ pc = "read" /\ mode = "View" /\ k \in KeysQuit
    /\ exit' = TRUE
    /\ UNCHANGED <<items, selected, mode, currently_editing,
                   editing_existing_item, title_field, info_field>>
    /\ Handled(k, session)

ViewNewTask(k) ==
    /\ pc = "read" /\ mode = "View" /\ k \in KeysNewTask
    /\ mode' = "Edit"
    /\ UNCHANGED <<exit, items, selected, currently_editing,
                   editing_existing_item, title_field, info_field>>
    /\ Handled(k, "new")

ViewSelectNext(k) ==
    /\ pc = "read" /\ mode = "View" /\ k \in KeysSelectNext
    /\ selected' = SelectNext(selected)
    /\ UNCHANGED <<exit, items, mode, currently_editing,
                   editing_existing_item, title_field, info_field>>
    /\ Handled(k, session)

ViewSelectPrevious(k) ==
    /\ pc = "read" /\ mode = "View" /\ k \in KeysSelectPrevious
    /\ selected' = SelectPrevious(selected)
    /\ UNCHANGED <<exit, items, mode, currently_editing,
                   editing_existing_item, title_field, info_field>>
    /\ Handled(k, session)

ViewHelp(k) ==
    /\ pc = "read" /\ mode = "View" /\ k \in KeysHelp
    /\ mode' = "Help"
    /\ UNCHANGED <<exit, items, selected, currently_editing,
                   editing_existing_item, title_field, info_field>>
    /\ Handled(k, session)

\* edit_task
ViewEditTask(k) ==
    /\ pc = "read" /\ mode = "View" /\ k \in KeysEditTask
    /\ IF IsSome(selected)
       THEN IF InRange(selected, Len(items))
            THEN /\ title_field' = items[Unwrap(selected) + 1].title
                 /\ info_field' = items[Unwrap(selected) + 1].info
                 /\ editing_existing_item' = Some(Unwrap(selected))
                 /\ mode' = "Edit"
                 /\ UNCHANGED <<exit, items, selected, currently_editing>>
                 /\ Handled(k, "edit")
            ELSE Panic(k)
       ELSE /\ UNCHANGED appvars
            /\ Handled(k, session)

\* delete_task
ViewDeleteTask(k) ==
    /\ pc = "read" /\ mode = "View" /\ k \in KeysDeleteTask
    /\ IF IsSome(selected)
       THEN IF InRange(selected, Len(items))
            THEN /\ items' = RemoveAt(items, Unwrap(selected))
                 /\ UNCHANGED <<exit, selected, mode, currently_editing,
                                editing_existing_item, title_field, info_field>>
                 /\ Handled(k, session)
            ELSE Panic(k)
       ELSE /\ UNCHANGED appvars
            /\ Handled(k, session)

\* toggle_status
ViewToggleStatus(k) ==
    /\ pc = "read" /\ mode = "View" /\ k \in KeysToggleStatus
    /\ IF IsSome(selected)
       THEN IF InRange(selected, Len(items))
            THEN /\ items' = [items EXCEPT ![Unwrap(selected) + 1].status =
                                  NextStatus(items[Unwrap(selected) + 1].status)]
                 /\ UNCHANGED <<exit, selected, mode, currently_editing,
                                editing_existing_item, title_field, info_field>>
                 /\ Handled(k, session)
            ELSE Panic(k)
       ELSE /\ UNCHANGED appvars
            /\ Handled(k, session)

ViewOther(k) ==
    /\ pc = "read" /\ mode = "View" /\ k \in KeysViewOther
    /\ UNCHANGED appvars
    /\ Handled(k, session)

---------------------------------------------------------------------------
(* Mode::Edit *)

\* an Esc that saves the draft as a new task before leaving
EditEsc_Saves(k) ==
    /\ pc = "read" /\ mode = "Edit" /\ k = "Esc"
    /\ mode' = "View"
    /\ items' = IF title_field # <<>> /\ Len(items) < MaxTasks
                THEN PushTask(items, title_field, info_field) ELSE items
    /\ UNCHANGED <<exit, selected, currently_editing,
                   editing_existing_item, title_field, info_field>>
    /\ Handled(k, "none")

EditEsc(k) ==
    /\ pc = "read" /\ mode = "Edit" /\ k = "Esc"
    /\ mode' = "View"
    /\ UNCHANGED <<exit, items, selected, currently_editing,
                   editing_existing_item, title_field, info_field>>
    /\ Handled(k, "none")

\* toggle_editing_field
EditToggleField(k) ==
    /\ pc = "read" /\ mode = "Edit" /\ k \in KeysEditToggleField
    /\ currently_editing' = ToggleField(currently_editing)
    /\ UNCHANGED <<exit, items, selected, mode,
                   editing_existing_item, title_field, info_field>>
    /\ Handled(k, session)

EditBackspace(k) ==
    /\ pc = "read" /\ mode = "Edit" /\ k = "Backspace"
    /\ IF currently_editing = "Title"
       THEN title_field' = Pop(title_field) /\ info_field' = info_field
       ELSE info_field' = Pop(info_field) /\ title_field' = title_field
    /\ UNCHANGED <<exit, items, selected, mode, currently_editing,
                   editing_existing_item>>
    /\ Handled(k, session)

\* an Enter that commits from the title field as well
EditEnterTitle_Commits(k) ==
    /\ pc = "read" /\ mode = "Edit" /\ k = "Enter"
    /\ currently_editing = "Title"
    /\ ~IsEmpty(title_field) /\ Len(items) < MaxTasks
    /\ items' = PushTask(items, title_field, info_field)
    /\ mode' = "View"
    /\ UNCHANGED <<exit, selected, currently_editing,
                   editing_existing_item, title_field, info_field>>
    /\ Handled(k, "none")

\* Enter while the title is edited: the focus moves to the info field
EditEnterTitle(k) ==
    /\ pc = "read" /\ mode = "Edit" /\ k = "Enter"
    /\ currently_editing = "Title"
    /\ currently_editing' = "Info"
    /\ UNCHANGED <<exit, items, selected, mode,
                   editing_existing_item, title_field, info_field>>
    /\ Handled(k, session)

\* Enter while the info is edited: new_task(), then mode = View
EditEnterInfo(k) ==
    /\ pc = "read" /\ mode = "Edit" /\ k = "Enter"
    /\ currently_editing = "Info"
    /\ (~IsEmpty(title_field) /\ ~IsSome(editing_existing_item))
           => Len(items) < MaxTasks
    /\ IF ~IsEmpty(title_field)
       THEN IF IsSome(editing_existing_item)
                 /\ ~InRange(editing_existing_item, Len(items))
            THEN Panic(k)
            ELSE /\ items' = IF IsSome(editing_existing_item)
                             THEN UpdateTask(items, Unwrap(editing_existing_item),
                                             title_field, info_field)
                             ELSE PushTask(items, title_field, info_field)
                 /\ title_field' = <<>>
                 /\ info_field' = <<>>
                 /\ currently_editing' = "Title"
                 /\ editing_existing_item' = None
                 /\ mode' = "View"
                 /\ UNCHANGED <<exit, selected>>
                 /\ Handled(k, "none")
       ELSE /\ mode' = "View"
            /\ UNCHANGED <<exit, items, selected, currently_editing,
                           editing_existing_item, title_field, info_field>>
            /\ Handled(k, "none")

EditChar(k) ==
    /\ pc = "read" /\ mode = "Edit" /\ k \in TypedChars
    /\ IF currently_editing = "Title"
       THEN /\ Append(title_field, k) \in Texts
            /\ title_field' = Append(title_field, k)
            /\ info_field' = info_field
       ELSE /\ Append(info_field, k) \in Texts
            /\ info_field' = Append(info_field, k)
            /\ title_field' = title_field
    /\ UNCHANGED <<exit, items, selected, mode, currently_editing,
                   editing_existing_item>>
    /\ Handled(k, session)

EditOther(k) ==
    /\ pc = "read" /\ mode = "Edit" /\ k \in KeysEditOther
    /\ UNCHANGED appvars
    /\ Handled(k, session)

---------------------------------------------------------------------------
(* Mode::Help *)

HelpEsc(k) ==
    /\ pc = "read" /\ mode = "Help" /\ k = "Esc"
    /\ mode' = "View"
    /\ UNCHANGED <<exit, items, selected, currently_editing,
                   editing_existing_item, title_field, info_field>>
    /\ Handled(k, session)

\* a Help mode in which the quit key still quits
HelpOther_QuitWorks(k) ==
    /\ pc = "read" /\ mode = "Help" /\ k \in KeysHelpOther
    /\ exit' = (k \in KeysQuit)
    /\ UNCHANGED <<items, selected, mode, currently_editing,
                   editing_existing_item, title_field, info_field>>
    /\ Handled(k, session)

HelpOther(k) ==
    /\ pc = "read" /\ mode = "Help" /\ k \in KeysHelpOther
    /\ UNCHANGED appvars
    /\ Handled(k, session)

---------------------------------------------------------------------------
Next ==
    \/ Draw
    \/ \E k \in Inputs :
          \/ ViewQuit(k)
          \/ ViewNewTask(k)
          \/ ViewSelectNext(k)
          \/ ViewSelectPrevious(k)
          \/ ViewHelp(k)
          \/ ViewEditTask(k)
          \/ ViewDeleteTask(k)
          \/ ViewToggleStatus(k)
          \/ ViewOther(k)
          \/ EditEsc(k)
          \/ EditToggleField(k)
          \/ EditBackspace(k)
          \/ EditEnterTitle(k)
          \/ EditEnterInfo(k)
          \/ EditChar(k)
          \/ EditOther(k)
          \/ HelpEsc(k)
          \/ HelpOther(k)

Spec == Init /\ [][Next]_vars

---------------------------------------------------------------------------
(* Steps of the run loop, as seen by an action formula.  At pc = "read"    *)
(* the only steps are key handlers and key' is the key handled.  At        *)
(* pc = "draw" the only step is the redraw that follows the handler of     *)
(* key; selected_before is the selection that handler started from.        *)

KeyStep(m, K) == pc = "read" /\ mode = m /\ key' \in K
DrawAfter(m, K) == pc = "draw" /\ mode = m /\ key \in K

\* Enter while the info field is edited: the commit
CommitStep == KeyStep("Edit", {"Enter"}) /\ currently_editing = "Info"

SelectionValid == ~IsSome(selected) \/ Unwrap(selected) < Len(items)

---------------------------------------------------------------------------
(* C1: when the handler of a key event has returned and nothing has been   *)
(* drawn yet, the selection is absent or an index below the number of      *)
(* tasks, and after select_next/select_previous on a non-empty store it is *)
(* not absent.                                                             *)
C1_SelectionValidAfterHandler ==
    (pc \in {"draw", "done"} /\ key # "none") =>
        /\ SelectionValid
        /\ (mode = "View" /\ key \in KeysSelectNext \cup KeysSelectPrevious
              /\ Len(items) > 0) => IsSome(selected)

(* C2: a commit with a non-empty title in a session entered with the       *)
(* new-task key appends exactly one Upcoming task holding the two buffers, *)
(* keeps every earlier task and keeps the selection.                       *)
C2_NewTaskCommitAppends ==
    [][(CommitStep /\ session = "new" /\ title_field # <<>>) =>
          /\ items' = Append(items, [title |-> title_field, info |-> info_field,
                                     status |-> "Upcoming"])
          /\ selected' = selected]_vars

(* C3: a commit that addresses the task at the edit target finds the       *)
(* target inside the task sequence.                                        *)
C3_CommitTargetInRange ==
    [][(CommitStep /\ title_field # <<>> /\ IsSome(editing_existing_item)) =>
          Unwrap(editing_existing_item) < Len(items)]_vars

(* C4: the new-task key in View starts an edit session with no target,     *)
(* two empty buffers and the title as the active field.                    *)
C4_NewTaskStartsEmptySession ==
    [][KeyStep("View", KeysNewTask) =>
          /\ mode' = "Edit"
          /\ editing_existing_item' = None
          /\ title_field' = <<>>
          /\ info_field' = <<>>
          /\ currently_editing' = "Title"]_vars

(* C5: in View and in Help no edit-session state remains: both buffers    *)
(* are empty and the edit target is absent.                                *)
C5_NoSessionOutsideEdit ==
    mode \in {"View", "Help"} =>
        /\ title_field = <<>>
        /\ info_field = <<>>
        /\ editing_existing_item = None

(* C6: a commit with an empty title changes no task and no selection,      *)
(* resets both buffers, the target and the active field, and goes to View. *)
C6_EmptyTitleCommitDiscards ==
    [][(CommitStep /\ title_field = <<>>) =>
          /\ items' = items
          /\ selected' = selected
          /\ title_field' = <<>>
          /\ info_field' = <<>>
          /\ editing_existing_item' = None
          /\ currently_editing' = "Title"
          /\ mode' = "View"]_vars

C9_CommitUpdatesTarget ==
    [][(CommitStep /\ title_field # <<>> /\ IsSome(editing_existing_item)) =>
          LET t == Unwrap(editing_existing_item) + 1 IN
          /\ t \in 1..Len(items)
          /\ Len(items') = Len(items)
          /\ items'[t] = [title |-> title_field, info |-> info_field,
                          status |-> items[t].status]
          /\ \A j \in (1..Len(items)) \ {t} : items'[j] = items[j]
          /\ selected' = selected]_vars

(* C10: the edit-selected key in View with a task selected starts an edit  *)
(* session whose target is the selection, whose buffers hold that task's   *)
(* title and info and whose active field is the title; with nothing        *)
(* selected it changes nothing.                                            *)
C10_EditSelectedStartsSession ==
    [][KeyStep("View", KeysEditTask) =>
          IF IsSome(selected)
          THEN /\ Unwrap(selected) < Len(items)
               /\ mode' = "Edit"
               /\ editing_existing_item' = selected
               /\ title_field' = items[Unwrap(selected) + 1].title
               /\ info_field' = items[Unwrap(selected) + 1].info
               /\ currently_editing' = "Title"
          ELSE /\ mode' = "View"
               /\ UNCHANGED <<exit, items, selected, currently_editing,
                              editing_existing_item, title_field, info_field>>]_vars

(* C11: cancelling an edit session leaves the task store as it was when    *)
(* Edit mode was entered.  When the cancel key is handled in Edit, whatever *)
(* the entry path and the keys handled in between, the mode becomes View   *)
(* and the tasks and the selection are those of the moment of entry; the   *)
(* frame drawn next changes neither.                                       *)
C11_CancelKeepsStore ==
    [][/\ KeyStep("Edit", {"Esc"}) =>
            /\ session \in {"new", "edit"}
            /\ mode' = "View"
            /\ items' = store_before[1]
            /\ selected' = store_before[2]
       /\ (DrawAfter("View", {"Esc"}) /\ store_before # <<>>) =>
            /\ mode' = "View"
            /\ items' = store_before[1]
            /\ selected' = store_before[2]]_vars

\* an edit session on a non-empty store has just been cancelled with text in
\* the title buffer
C11_Witness ==
    /\ pc = "draw" /\ key = "Esc" /\ mode = "View"
    /\ store_before # <<>> /\ session = "none"
    /\ Len(items) >= 1
    /\ IsSome(selected)
    /\ title_field # <<>>

(* C12: every task of the store has a non-empty title, in every reachable  *)
(* state.                                                                  *)
C12_TitlesNonEmpty ==
    \A j \in 1..Len(items) : items[j].title # <<>>

\* an edit-selected session whose title was emptied has just been committed:
\* the empty-title commit is the only commit that leaves the target in place
C12_Witness ==
    /\ pc = "draw" /\ key = "Enter" /\ mode = "View"
    /\ title_field = <<>>
    /\ store_before # <<>> /\ Len(store_before[1]) >= 1
    /\ IsSome(editing_existing_item)
    /\ Unwrap(editing_existing_item) < Len(items)

(* C13: the toggle-status key in View advances the status of the selected  *)
(* task, and of no other, along Upcoming -> Active -> Completed ->         *)
(* Upcoming, so that two more applications give back the status it had;    *)
(* titles, infos, the selection and the mode are unchanged, and with       *)
(* nothing selected nothing changes.                                       *)
C13_CycleStatus ==
    [][KeyStep("View", KeysToggleStatus) =>
          /\ UNCHANGED <<exit, selected, mode, currently_editing,
                         editing_existing_item, title_field, info_field>>
          /\ Len(items') = Len(items)
          /\ IF IsSome(selected)
             THEN LET i == Unwrap(selected) + 1 IN
                  /\ i \in 1..Len(items)
                  /\ items'[i].status =
                        CASE items[i].status = "Upcoming" -> "Active"
                          [] items[i].status = "Active" -> "Completed"
                          [] items[i].status = "Completed" -> "Upcoming"
                  /\ NextStatus(NextStatus(items'[i].status)) = items[i].status
                  /\ items'[i].title = items[i].title
                  /\ items'[i].info = items[i].info
                  /\ \A j \in (1..Len(items)) \ {i} : items'[j] = items[j]
             ELSE items' = items]_vars

\* the second of two tasks has just been cycled from Completed back to Upcoming
C13_Witness ==
    /\ pc = "draw" /\ mode = "View" /\ key \in KeysToggleStatus
    /\ Len(items) = 2
    /\ selected = Some(1)
    /\ items[2].status = "Upcoming"
    /\ items[1].status = "Completed"

(* C14: drawing a frame changes nothing of the application state: the      *)
(* mode, the tasks, the selection and the edit session are after the draw  *)
(* what they were before it.                                               *)
C14_DrawMutatesNothing ==
    [][(pc \in {"start", "draw"}) => UNCHANGED appvars]_vars

(* C15: the help key in View leads to Help and the cancel key in Help back *)
(* to View, both leaving everything else as it is; any other key in Help   *)
(* changes nothing (mode, tasks, selection, edit session, exit flag), and  *)
(* neither does a frame drawn in Help.                                     *)
C15_HelpRoundTrip ==
    [][/\ KeyStep("View", KeysHelp) =>
            /\ mode' = "Help"
            /\ UNCHANGED <<exit, items, selected, currently_editing,
                           editing_existing_item, title_field, info_field>>
       /\ KeyStep("Help", {"Esc"}) =>
            /\ mode' = "View"
            /\ UNCHANGED <<exit, items, selected, currently_editing,
                           editing_existing_item, title_field, info_field>>
       /\ KeyStep("Help", KeyCodes \ {"Esc"}) => UNCHANGED appvars
       /\ (pc = "draw" /\ mode = "Help") => UNCHANGED appvars]_vars

\* the quit key has just been handled in Help, with a task selected
C15_Witness ==
    /\ pc = "draw" /\ mode = "Help" /\ key \in KeysQuit
    /\ ~exit
    /\ IsSome(selected)

(* C16: the exit flag starts false; it changes only from false to true,    *)
(* and only when the quit key is handled in View, which leaves the mode at *)
(* View and the tasks, the selection and the edit session unchanged and    *)
(* ends the run loop; once it is true nothing more happens: no key event   *)
(* is handled and the flag stays true.                                     *)
C16_ExitFlag ==
    /\ exit = FALSE
    /\ [][/\ (exit' # exit) =>
                /\ ~exit /\ exit'
                /\ KeyStep("View", KeysQuit)
          /\ KeyStep("View", KeysQuit) =>
                /\ exit'
                /\ pc' = "done"
                /\ mode' = "View"
                /\ UNCHANGED <<items, selected, currently_editing,
                               editing_existing_item, title_field, info_field>>
          /\ exit => UNCHANGED vars]_vars

\* the quit key has ended the run loop of a non-empty store
C16_Witness ==
    /\ exit /\ pc = "done" /\ key \in KeysQuit
    /\ Len(items) >= 1

(* C17: Enter while the title field is active only moves the focus to the  *)
(* info field: mode, buffers, target, tasks, selection and exit flag are   *)
(* unchanged; and no key handled in Edit mode while the title field is     *)
(* active changes the tasks.                                               *)
C17_FirstEnterMovesFocus ==
    [][/\ (KeyStep("Edit", {"Enter"}) /\ currently_editing = "Title") =>
            /\ currently_editing' = "Info"
            /\ UNCHANGED <<exit, items, selected, mode,
                           editing_existing_item, title_field, info_field>>
       /\ (KeyStep("Edit", KeyCodes) /\ currently_editing = "Title") =>
            items' = items]_vars

\* Enter has just moved the focus away from a non-empty title
C17_Witness ==
    /\ pc = "draw" /\ mode = "Edit" /\ key = "Enter"
    /\ currently_editing = "Info"
    /\ title_field # <<>>

(* C18: in every step, a task that is still in the store after the step    *)
(* has the status it had before, unless the step handles the toggle-status *)
(* key in View with that task selected; a step that adds a task is a       *)
(* commit and the task it adds is Upcoming.  (After a delete the tasks     *)
(* behind the removed one are found one position lower.)                   *)
C18_StatusChangesOnlyByToggle ==
    [][IF KeyStep("View", KeysDeleteTask) /\ InRange(selected, Len(items))
       THEN /\ Len(items') = Len(items) - 1
            /\ \A j \in 1..Len(items') :
                  items'[j].status =
                     IF j <= Unwrap(selected) THEN items[j].status
                     ELSE items[j + 1].status
       ELSE /\ Len(items') >= Len(items)
            /\ \A j \in 1..Len(items) :
                  items'[j].status # items[j].status =>
                     /\ KeyStep("View", KeysToggleStatus)
                     /\ selected = Some(j - 1)
            /\ \A j \in (Len(items) + 1)..Len(items') :
                  /\ items'[j].status = "Upcoming"
                  /\ CommitStep]_vars

\* an edit session has just been committed onto the only task, which is Active
C18_Witness ==
    /\ pc = "draw" /\ mode = "View" /\ key = "Enter"
    /\ currently_editing = "Title" /\ title_field = <<>>
    /\ store_before # <<>> /\ Len(store_before[1]) = 1
    /\ Len(items) = 1
    /\ items[1].status = "Active"

====
